---- MODULE Spec2Model ----
(***************************************************************************)
(* Founders Club invite workflow: the request intake handler, the status   *)
(* lookup, the approval handler and the RequestAccessModal form, modelled  *)
(* as concurrent request/response calls against the two store tables      *)
(* founders_requests and founders_invite_codes.                            *)
(*                                                                         *)
(* Every `await` on the store or on the mailer is one atomic step; the     *)
(* steps of different calls interleave freely, as HTTP requests do.        *)
(* Strings are sequences of one-character strings so that toLowerCase,     *)
(* trim and the e-mail pattern are computed, not assumed.                  *)
(***************************************************************************)
EXTENDS Integers, Sequences, FiniteSets, Bags, TLC

(* ------------------------------ bounds --------------------------------- *)

\* number of call slots (HTTP requests that can be in flight together)
NProc == 2

\* rows the founders_requests table may hold
MaxRequests == 2

\* rows the founders_invite_codes table may hold
MaxCodes == 2

Procs == 1..NProc

(* ------------------------------ strings -------------------------------- *)

UpperChars == <<"A","B","C","D","E","F","G","H","I","J","K","L","M",
                "N","O","P","Q","R","S","T","U","V","W","X","Y","Z">>

LowerChars == <<"a","b","c","d","e","f","g","h","i","j","k","l","m",
                "n","o","p","q","r","s","t","u","v","w","x","y","z">>

IsUpperChar(c) == \E i \in DOMAIN UpperChars : UpperChars[i] = c

ToLowerChar(c) ==
  IF IsUpperChar(c)
    THEN LowerChars[CHOOSE i \in DOMAIN UpperChars : UpperChars[i] = c]
    ELSE c

\* mutant of ToLowerCase: the conversion left out
ToLowerCaseOmitted(s) == s

\* String.prototype.toLowerCase
ToLowerCase(s) == [i \in DOMAIN s |-> ToLowerChar(s[i])]

IsSpace(c) == c = " "

RECURSIVE TrimStart(_)
TrimStart(s) ==
  IF s # <<>> /\ IsSpace(Head(s)) THEN TrimStart(Tail(s)) ELSE s

RECURSIVE TrimEnd(_)
TrimEnd(s) ==
  IF s # <<>> /\ IsSpace(s[Len(s)])
    THEN TrimEnd(SubSeq(s, 1, Len(s) - 1))
    ELSE s

\* String.prototype.trim
Trim(s) == TrimEnd(TrimStart(s))

\* [^\s@]+ : a non-empty run without white space and without '@'
IsPlainRun(s) ==
  /\ s # <<>>
  /\ \A i \in DOMAIN s : ~IsSpace(s[i]) /\ s[i] # "@"

\* emailRegex.test(email) for /^[^\s@]+@[^\s@]+\.[^\s@]+$/
EmailRegexTest(s) ==
  \E a \in DOMAIN s : \E d \in DOMAIN s :
    /\ s[a] = "@"
    /\ s[d] = "."
    /\ a < d
    /\ IsPlainRun(SubSeq(s, 1, a - 1))
    /\ IsPlainRun(SubSeq(s, a + 1, d - 1))
    /\ IsPlainRun(SubSeq(s, d + 1, Len(s)))

(* ------------------------------ state ---------------------------------- *)

VARIABLES
  founders_requests,      \* the founders_requests table, in insertion order
  founders_invite_codes,  \* the founders_invite_codes table, a bag of rows
  sentEmails,             \* every sendOrderEmail attempt, a bag of messages
  calls,                  \* the handler invocation running in each call slot
  approvedOk,             \* history: request ids some approval returned success for
  overlapped,             \* history: request ids two approvals were in flight for
  formData,               \* RequestAccessModal: useState formData
  loading,                \* RequestAccessModal: useState loading
  success,                \* RequestAccessModal: useState success
  error,                  \* RequestAccessModal: useState error
  fetchCall,              \* the call slot serving the modal's fetch, 0 when none
  now                     \* the approval server's clock, in hours

vars == <<founders_requests, founders_invite_codes, sentEmails, calls,
          approvedOk, overlapped, formData, loading, success, error, fetchCall,
          now>>

storeVars == <<founders_requests, founders_invite_codes, sentEmails>>

histVars == <<approvedOk, overlapped, now>>

modalVars == <<formData, loading, success, error, fetchCall>>

(* --------------------------- request inputs ---------------------------- *)

Name1 == <<"J">>
NamePadded == <<" ", "J", " ">>
Phone1 == <<"1">>
Profession1 == <<"d">>
EmailUpper == <<"A", "@", "x", ".", "c">>
EmailLower == <<"a", "@", "x", ".", "c">>
EmailNoTld == <<"a", "@", "x">>
EmailSpaced == <<"a", " ", "@", "x", ".", "c">>

\* JSON bodies a client of POST /founders/request may send
ApiBodies ==
  { [fullName |-> NamePadded, email |-> EmailUpper,
     phone |-> Phone1, profession |-> Profession1],
    [fullName |-> Name1, email |-> <<>>,
     phone |-> Phone1, profession |-> Profession1, note |-> <<>>],
    [fullName |-> Name1, email |-> EmailNoTld,
     phone |-> Phone1, profession |-> Profession1],
    [fullName |-> Name1, email |-> EmailLower, profession |-> Profession1],
    [email |-> EmailLower, phone |-> Phone1, profession |-> Profession1],
    [fullName |-> Name1, email |-> EmailLower,
     phone |-> Phone1, profession |-> <<>>],
    [fullName |-> Name1, email |-> EmailSpaced,
     phone |-> Phone1, profession |-> Profession1] }

EmailOther == <<"b", "@", "x", ".", "c">>
Phone2 == <<"2">>

\* JSON bodies of two applicants who differ in email and in phone
ApplicantBodies ==
  { [fullName |-> Name1, email |-> EmailLower,
     phone |-> Phone1, profession |-> Profession1],
    [fullName |-> Name1, email |-> EmailOther,
     phone |-> Phone2, profession |-> Profession1] }

\* mutant of Falsy: only an absent field counts, the empty string passes
FalsyAbsentOnly(body, k) == k \notin DOMAIN body

\* `!x` of a destructured body field: absent (undefined) or the empty string
Falsy(body, k) == k \notin DOMAIN body \/ body[k] = <<>>

\* note?.trim() || null, with null written as the empty string
NoteOf(body) == IF Falsy(body, "note") THEN <<>> ELSE Trim(body["note"])

(* ------------------------------ responses ------------------------------ *)

NoResp ==
  [status |-> 0, success |-> FALSE, error |-> "", requestId |-> 0,
   code |-> <<>>, expiresAt |-> 0, hasRequest |-> FALSE,
   rstatus |-> "", createdAt |-> 0, json |-> TRUE]

ErrorResp(st, msg) == [NoResp EXCEPT !.status = st, !.error = msg]

ErrRequired == "All required fields must be provided"
ErrEmailFormat == "Invalid email format"
ErrPending == "You already have a pending request. Please wait for approval."
ErrApproved ==
  "This email is already approved. Please check your email for the invite code."
ErrSubmit == "Failed to submit request. Please try again."
ErrUnexpected == "An unexpected error occurred"

(* ------------------------------ the store ------------------------------ *)

NoRow ==
  [id |-> 0, full_name |-> <<>>, email |-> <<>>, phone |-> <<>>,
   profession |-> <<>>, note |-> <<>>, status |-> "", created_at |-> 0]

\* rows of founders_requests with .eq('email', e).eq('status', st)
RowsByEmailStatus(reqs, e, st) ==
  { i \in DOMAIN reqs : reqs[i].email = e /\ reqs[i].status = st }

\* mutant of Single: the first matching row is returned when several match
SingleFirst(rows) == IF rows = {} THEN 0 ELSE CHOOSE i \in rows : \A j \in rows : i <= j

\* .single(): the row when exactly one matches, otherwise data = null (0)
Single(rows) == IF Cardinality(rows) = 1 THEN CHOOSE i \in rows : TRUE ELSE 0

\* mutant of InsertRequest: an upsert that replaces the row with the same email
InsertRequestUpsert(reqs, row) ==
  IF \E i \in DOMAIN reqs : reqs[i].email = row.email
    THEN [i \in DOMAIN reqs |->
            IF reqs[i].email = row.email
              THEN [row EXCEPT !.id = i, !.created_at = reqs[i].created_at]
              ELSE reqs[i]]
    ELSE Append(reqs, [row EXCEPT !.id = Len(reqs) + 1,
                                  !.created_at = Len(reqs) + 1])

\* .insert(row).select().single() on founders_requests: the store assigns the
\* id and created_at; created_at grows with the insertion order
InsertRequest(reqs, row) ==
  Append(reqs, [row EXCEPT !.id = Len(reqs) + 1, !.created_at = Len(reqs) + 1])

(* ------------------------------- calls --------------------------------- *)

NoBody == [fullName |-> <<>>]

Idle ==
  [op |-> "none", origin |-> "api", pc |-> "idle", body |-> NoBody,
   email |-> <<>>, requestId |-> 0, foundersRequest |-> NoRow,
   inviteCode |-> <<>>, attempts |-> 0, expiresAt |-> 0,
   updateError |-> FALSE, storeError |-> FALSE, resp |-> NoResp]

\* the slot can take a new invocation; slots are interchangeable, a new
\* invocation takes the lowest one that is free
Vacant(p) == calls[p].pc \in {"idle", "done"} /\ fetchCall # p

Free(p) == Vacant(p) /\ \A q \in Procs : q < p => ~Vacant(q)

\* a finished invocation: only what went back to the client stays in the slot
Finished(c, r) ==
  [Idle EXCEPT !.op = c.op, !.origin = c.origin, !.pc = "done", !.resp = r]

Return(p, r) == [calls EXCEPT ![p] = Finished(calls[p], r)]

\* the invocation answers r because the store call it awaited returned an error
ReturnStoreError(p, r) ==
  [calls EXCEPT ![p] = [Finished(calls[p], r) EXCEPT !.storeError = TRUE]]

(* ------------------- POST /founders/request (intake) ------------------- *)

\* route.ts 10-30: parse the body, validate the required fields and the email
IntakeBegin(p, body, origin) ==
  /\ Free(p)
  /\ LET c == [Idle EXCEPT !.op = "intake", !.origin = origin, !.body = body]
     IN  calls' =
           [calls EXCEPT ![p] =
              IF \/ Falsy(body, "fullName") \/ Falsy(body, "email")
                 \/ Falsy(body, "phone") \/ Falsy(body, "profession")
                THEN Finished(c, ErrorResp(400, ErrRequired))
              ELSE IF ~EmailRegexTest(body["email"])
                THEN Finished(c, ErrorResp(400, ErrEmailFormat))
              ELSE [c EXCEPT !.pc = "i_checkPending"]]

IntakeStart(p) ==
  /\ \E body \in ApiBodies : IntakeBegin(p, body, "api")
  /\ UNCHANGED <<storeVars, histVars, modalVars>>

\* route.ts 10-30 for the bodies of the two applicants
IntakeStartApplicant(p) ==
  /\ \E body \in ApplicantBodies : IntakeBegin(p, body, "api")
  /\ UNCHANGED <<storeVars, histVars, modalVars>>

\* route.ts 32-45: the pending-duplicate check
IntakeCheckPending(p) ==
  /\ calls[p].pc = "i_checkPending"
  /\ LET existingRequest ==
           Single(RowsByEmailStatus(founders_requests,
                    ToLowerCase(calls[p].body["email"]), "pending"))
     IN  calls' = IF existingRequest # 0
                    THEN Return(p, ErrorResp(400, ErrPending))
                    ELSE [calls EXCEPT ![p].pc = "i_checkApproved"]
  /\ UNCHANGED <<storeVars, histVars, modalVars>>

\* route.ts 47-60: the already-approved check
IntakeCheckApproved(p) ==
  /\ calls[p].pc = "i_checkApproved"
  /\ LET approvedRequest ==
           Single(RowsByEmailStatus(founders_requests,
                    ToLowerCase(calls[p].body["email"]), "approved"))
     IN  calls' = IF approvedRequest # 0
                    THEN Return(p, ErrorResp(400, ErrApproved))
                    ELSE [calls EXCEPT ![p].pc = "i_insert",
                                       ![p].storeError = FALSE]
  /\ UNCHANGED <<storeVars, histVars, modalVars>>

\* route.ts 33-40: the pending check fails in the store; checkError is not
\* read, data is null and the handler goes on
IntakeCheckPendingError(p) ==
  /\ calls[p].pc = "i_checkPending"
  /\ calls' = [calls EXCEPT ![p].pc = "i_checkApproved", ![p].storeError = TRUE]
  /\ UNCHANGED <<storeVars, histVars, modalVars>>

\* route.ts 48-55: the approved check fails in the store; data is null and the
\* handler goes on
IntakeCheckApprovedError(p) ==
  /\ calls[p].pc = "i_checkApproved"
  /\ calls' = [calls EXCEPT ![p].pc = "i_insert", ![p].storeError = TRUE]
  /\ UNCHANGED <<storeVars, histVars, modalVars>>

\* the row of route.ts 65-72
NewRequestRow(body) ==
  [NoRow EXCEPT !.full_name = Trim(body["fullName"]),
                !.email = Trim(ToLowerCase(body["email"])),
                !.phone = Trim(body["phone"]),
                !.profession = Trim(body["profession"]),
                !.note = NoteOf(body),
                !.status = "pending"]

\* route.ts 62-91: insert the request and answer with its id
IntakeInsert(p) ==
  /\ calls[p].pc = "i_insert"
  /\ Len(founders_requests) < MaxRequests
  /\ founders_requests' =
       InsertRequest(founders_requests, NewRequestRow(calls[p].body))
  /\ calls' = Return(p, [NoResp EXCEPT !.status = 200, !.success = TRUE,
                           !.requestId = founders_requests'[Len(founders_requests')].id])
  /\ UNCHANGED <<founders_invite_codes, sentEmails, histVars, modalVars>>

\* route.ts 76-82: the insert fails in the store
IntakeInsertError(p) ==
  /\ calls[p].pc = "i_insert"
  /\ calls' = ReturnStoreError(p, ErrorResp(500, ErrSubmit))
  /\ UNCHANGED <<storeVars, histVars, modalVars>>

(* ------------------ GET /founders/request (status lookup) -------------- *)

ErrEmailRequired == "Email is required"
ErrCheckStatus == "Failed to check status"

\* searchParams.get('email') values a client may send
QueryEmails == { EmailUpper, <<>> }

\* mutant of StatusLookup: ascending order, the oldest row comes first
StatusLookupAscending(reqs, e) ==
  LET rows == { i \in DOMAIN reqs : reqs[i].email = e }
  IN  IF rows = {} THEN 0
      ELSE CHOOSE i \in rows :
             \A j \in rows : reqs[i].created_at <= reqs[j].created_at

\* .eq('email', e).order('created_at', {ascending: false}).limit(1):
\* the index of the newest row with that email, 0 when there is none
StatusLookup(reqs, e) ==
  LET rows == { i \in DOMAIN reqs : reqs[i].email = e }
  IN  IF rows = {} THEN 0
      ELSE CHOOSE i \in rows :
             \A j \in rows : reqs[i].created_at >= reqs[j].created_at

\* mutant of StatusResponse: the parameter is compared as it was sent
StatusResponseCaseSensitive(reqs, email) ==
  LET r == StatusLookup(reqs, email)
  IN  IF r = 0
        THEN [NoResp EXCEPT !.status = 200, !.success = TRUE]
        ELSE [NoResp EXCEPT !.status = 200, !.success = TRUE,
                            !.hasRequest = TRUE,
                            !.rstatus = reqs[r].status,
                            !.createdAt = reqs[r].created_at]

\* the response of route.ts 129-141 for the table reqs and the parameter email
StatusResponse(reqs, email) ==
  LET r == StatusLookup(reqs, ToLowerCase(email))
  IN  IF r = 0
        THEN [NoResp EXCEPT !.status = 200, !.success = TRUE]
        ELSE [NoResp EXCEPT !.status = 200, !.success = TRUE,
                            !.hasRequest = TRUE,
                            !.rstatus = reqs[r].status,
                            !.createdAt = reqs[r].created_at]

\* route.ts 103-113: read the email parameter
GetStart(p) ==
  /\ Free(p)
  /\ \E email \in QueryEmails :
       LET c == [Idle EXCEPT !.op = "get", !.email = email]
       IN  calls' =
             [calls EXCEPT ![p] =
                IF email = <<>>
                  THEN Finished(c, ErrorResp(400, ErrEmailRequired))
                  ELSE [c EXCEPT !.pc = "g_query"]]
  /\ UNCHANGED <<storeVars, histVars, modalVars>>

\* route.ts 115-141: query the newest row and answer
GetQuery(p) ==
  /\ calls[p].pc = "g_query"
  /\ calls' = Return(p, StatusResponse(founders_requests, calls[p].email))
  /\ UNCHANGED <<storeVars, histVars, modalVars>>

\* route.ts 122-127: the query fails in the store
GetQueryError(p) ==
  /\ calls[p].pc = "g_query"
  /\ calls' = ReturnStoreError(p, ErrorResp(500, ErrCheckStatus))
  /\ UNCHANGED <<storeVars, histVars, modalVars>>

(* --------------------- POST /founders/approve -------------------------- *)

ErrIdRequired == "Request ID is required"
ErrNotFound == "Request not found"
ErrProcessed == "Request has already been processed"
ErrGenerate == "Failed to generate unique code"
ErrCreateCode == "Failed to create invite code"

\* mutant of chars: the whole upper-case alphabet and all ten digits
charsWithAmbiguous ==
  <<"A","B","C","D","E","F","G","H","I","J","K","L","M","N","O","P","Q","R",
    "S","T","U","V","W","X","Y","Z","0","1","2","3","4","5","6","7","8","9">>

\* route.ts 163
chars == <<"A","B","C","D","E","F","G","H","J","K","L","M","N","P","Q","R",
           "S","T","U","V","W","X","Y","Z","2","3","4","5","6","7","8","9">>

\* route.ts 165: characters after the prefix
CodeLength == 8

\* route.ts 207
maxAttempts == 10

\* route.ts 232: hours added to the approval time
ExpiryHours == 72

\* the outcomes of Math.floor(Math.random() * chars.length), eight per code
DrawPool == { [i \in 1..CodeLength |-> 0],
              [i \in 1..CodeLength |-> IF i = 1 THEN 31 ELSE 7] }

\* route.ts 162-169, for the eight random draws d
generateInviteCode(d) ==
  <<"F", "C", "-">> \o [i \in 1..CodeLength |-> chars[d[i] + 1]]

\* requestId values a caller may send; 0 stands for a missing one
RequestIds == 0..MaxRequests

\* the code rows whose request_id is r, with their multiplicities
CodeRowsOf(codes, r) ==
  [row \in { x \in BagToSet(codes) : x.request_id = r } |-> codes[row]]

\* the code rows whose code is c: .eq('code', c)
CodeRowsWith(codes, c) ==
  [row \in { x \in BagToSet(codes) : x.code = c } |-> codes[row]]

\* mutant of SingleRow: the first matching row is returned when several match
SingleRowFirst(rows) == BagCardinality(rows) >= 1

\* .single() on a bag of rows: data is non-null when exactly one row matches
SingleRow(rows) == BagCardinality(rows) = 1

\* mutant of InsertCode: the store keeps one code row per request id
InsertCodeOncePerRequest(codes, row) ==
  IF BagCardinality(CodeRowsOf(codes, row.request_id)) > 0
    THEN codes
    ELSE codes (+) SetToBag({row})

\* .insert(row) on founders_invite_codes
InsertCode(codes, row) == codes (+) SetToBag({row})

\* mutant of UpdateStatus: the filter on the id is missing
UpdateStatusAll(reqs, id) == [i \in DOMAIN reqs |-> [reqs[i] EXCEPT !.status = "approved"]]

\* .update({status: 'approved'}).eq('id', id)
UpdateStatus(reqs, id) ==
  [i \in DOMAIN reqs |->
     IF reqs[i].id = id THEN [reqs[i] EXCEPT !.status = "approved"] ELSE reqs[i]]

\* another approval of the same request is in flight
InFlightApproval(p, r) ==
  \E q \in Procs \ {p} :
    /\ calls[q].op = "approve"
    /\ calls[q].requestId = r
    /\ calls[q].pc \notin {"idle", "done"}

\* route.ts 171-181: parse the body
ApproveStart(p) ==
  /\ Free(p)
  /\ \E requestId \in RequestIds :
       LET c == [Idle EXCEPT !.op = "approve", !.requestId = requestId]
       IN  /\ calls' =
                [calls EXCEPT ![p] =
                   IF requestId = 0
                     THEN Finished(c, ErrorResp(400, ErrIdRequired))
                     ELSE [c EXCEPT !.pc = "a_fetch"]]
           /\ overlapped' =
                IF requestId # 0 /\ InFlightApproval(p, requestId)
                  THEN overlapped \cup {requestId}
                  ELSE overlapped
  /\ UNCHANGED <<storeVars, approvedOk, now, modalVars>>

\* mutant of NotPending: the status guard never fires
NotPendingGuardOmitted(row) == FALSE

\* the status guard of route.ts 197
NotPending(row) == row.status # "pending"

\* mutant of FetchRequest: the filter on the id is missing, the newest row is
\* returned
FetchRequestUnfiltered(reqs, id) == Len(reqs)

\* mutant of FetchRequest: the oldest row of the table is returned when some
\* row has the id
FetchRequestOldest(reqs, id) ==
  IF \E i \in DOMAIN reqs : reqs[i].id = id THEN 1 ELSE 0

\* .eq('id', id).single() on founders_requests: the row's index, 0 for null
FetchRequest(reqs, id) == Single({ i \in DOMAIN reqs : reqs[i].id = id })

\* route.ts 190-202: the error the fetched request is answered with, NoResp
\* when the approval goes on
GuardAnswer(reqs, id) ==
  LET r == FetchRequest(reqs, id)
  IN  IF r = 0 THEN ErrorResp(404, ErrNotFound)
      ELSE IF NotPending(reqs[r]) THEN ErrorResp(400, ErrProcessed)
      ELSE NoResp

\* route.ts 183-205: fetch the request, guard on its status, draw a code
ApproveFetch(p) ==
  /\ calls[p].pc = "a_fetch"
  /\ LET r == FetchRequest(founders_requests, calls[p].requestId)
         answer == GuardAnswer(founders_requests, calls[p].requestId)
     IN  IF answer # NoResp
           THEN calls' = Return(p, answer)
         ELSE \E d \in DrawPool :
                calls' =
                  [calls EXCEPT
                     ![p].pc = "a_loop",
                     ![p].foundersRequest = founders_requests[r],
                     ![p].inviteCode = generateInviteCode(d),
                     ![p].attempts = 0]
  /\ UNCHANGED <<storeVars, histVars, modalVars>>

\* route.ts 183-195: the fetch fails in the store
ApproveFetchError(p) ==
  /\ calls[p].pc = "a_fetch"
  /\ calls' = ReturnStoreError(p, ErrorResp(404, ErrNotFound))
  /\ UNCHANGED <<storeVars, histVars, modalVars>>

\* the hour at which the clocks of the server's local zone go forward by one
\* hour (daylight saving starts)
DstStart == 100

\* hours the local zone is ahead of UTC at the instant t
UtcOffset(t) == IF t < DstStart THEN 0 ELSE 1

\* the local wall-clock time, in hours, at the instant t
LocalOf(t) == t + UtcOffset(t)

\* the instant of the local wall-clock time l; the hour skipped when the
\* clocks go forward is read with the offset in force before the change
InstantOfLocal(l) == IF l <= DstStart THEN l ELSE l - 1

\* Date.prototype.getHours: the hour of the local day
getHours(t) == LocalOf(t) % 24

\* Date.prototype.setHours(h): the local day of t with its hour field set to
\* h, hours beyond 23 carrying into the following days
setHours(t, h) == InstantOfLocal(LocalOf(t) - getHours(t) + h)

\* route.ts 231-232: new Date() at the instant t, then
\* setHours(getHours() + 72)
ExpiresAt(t) == setHours(t, getHours(t) + ExpiryHours)

\* route.ts 209-232: one uniqueness check of the loop; leaving the loop with a
\* free candidate computes the expiry, leaving it exhausted answers 500
ApproveCheckCode(p) ==
  /\ calls[p].pc = "a_loop"
  /\ calls[p].attempts < maxAttempts
  /\ LET existing ==
           SingleRow(CodeRowsWith(founders_invite_codes, calls[p].inviteCode))
     IN  IF ~existing
           THEN calls' = [calls EXCEPT ![p].pc = "a_insert",
                                       ![p].expiresAt = ExpiresAt(now)]
           ELSE \E d \in DrawPool :
                  LET c == [calls EXCEPT ![p].inviteCode = generateInviteCode(d),
                                         ![p].attempts = calls[p].attempts + 1]
                  IN  calls' = IF c[p].attempts >= maxAttempts
                                 THEN Return(p, ErrorResp(500, ErrGenerate))
                                 ELSE c
  /\ UNCHANGED <<storeVars, histVars, modalVars>>

\* route.ts 211-217: the uniqueness query fails, data is null and the loop ends
ApproveCheckCodeError(p) ==
  /\ calls[p].pc = "a_loop"
  /\ calls' = [calls EXCEPT ![p].pc = "a_insert",
                            ![p].expiresAt = ExpiresAt(now),
                            ![p].storeError = TRUE]
  /\ UNCHANGED <<storeVars, histVars, modalVars>>

\* the row of route.ts 237-243
NewCodeRow(c) ==
  [code |-> c.inviteCode, email |-> c.foundersRequest.email,
   phone |-> c.foundersRequest.phone, request_id |-> c.requestId,
   expires_at |-> c.expiresAt]

\* route.ts 234-243: insert the invite code
ApproveInsertCode(p) ==
  /\ calls[p].pc = "a_insert"
  /\ BagCardinality(founders_invite_codes) < MaxCodes
  /\ founders_invite_codes' = InsertCode(founders_invite_codes, NewCodeRow(calls[p]))
  /\ calls' = [calls EXCEPT ![p].pc = "a_update", ![p].storeError = FALSE]
  /\ UNCHANGED <<founders_requests, sentEmails, histVars, modalVars>>

\* mutant of ApproveInsertCodeError: the email goes out before codeError is
\* read
ApproveInsertCodeErrorEmailed(p) ==
  /\ calls[p].pc = "a_insert"
  /\ sentEmails' = sentEmails (+) SetToBag({
                     [to |-> calls[p].foundersRequest.email,
                      code |-> calls[p].inviteCode,
                      request_id |-> calls[p].requestId,
                      delivered |-> TRUE,
                      threw |-> FALSE]})
  /\ calls' = ReturnStoreError(p, ErrorResp(500, ErrCreateCode))
  /\ UNCHANGED <<founders_requests, founders_invite_codes, histVars, modalVars>>

\* mutant of ApproveInsertCodeError: codeError is only logged and the approval
\* goes on to the status update
ApproveInsertCodeErrorIgnored(p) ==
  /\ calls[p].pc = "a_insert"
  /\ calls' = [calls EXCEPT ![p].pc = "a_update", ![p].storeError = TRUE]
  /\ UNCHANGED <<storeVars, histVars, modalVars>>

\* route.ts 245-251: the insert fails in the store
ApproveInsertCodeError(p) ==
  /\ calls[p].pc = "a_insert"
  /\ calls' = ReturnStoreError(p, ErrorResp(500, ErrCreateCode))
  /\ UNCHANGED <<storeVars, histVars, modalVars>>

\* route.ts 253-257: set the request's status to approved
ApproveUpdate(p) ==
  /\ calls[p].pc = "a_update"
  /\ founders_requests' = UpdateStatus(founders_requests, calls[p].requestId)
  /\ calls' = [calls EXCEPT ![p].pc = "a_email"]
  /\ UNCHANGED <<founders_invite_codes, sentEmails, histVars, modalVars>>

\* mutant of ApproveUpdateError: the failed update is returned as an error
ApproveUpdateErrorReturned(p) ==
  /\ calls[p].pc = "a_update"
  /\ calls' = Return(p, ErrorResp(500, ErrUnexpected))
  /\ UNCHANGED <<storeVars, histVars, modalVars>>

\* route.ts 259-262: the update fails in the store; logged, not returned
ApproveUpdateError(p) ==
  /\ calls[p].pc = "a_update"
  /\ calls' = [calls EXCEPT ![p].pc = "a_email", ![p].updateError = TRUE]
  /\ UNCHANGED <<storeVars, histVars, modalVars>>

ApprovedResp(c) ==
  [NoResp EXCEPT !.status = 200, !.success = TRUE, !.code = c.inviteCode,
                 !.expiresAt = c.expiresAt]

\* route.ts 264-287 with the outcome of sendOrderEmail: "ok" (a result with
\* success = true), "failed" (a result with success = false) or "threw" (a
\* thrown error); the last two are only logged
ApproveSend(p, result) ==
  /\ calls[p].pc = "a_email"
  /\ sentEmails' = sentEmails (+) SetToBag({
                     [to |-> calls[p].foundersRequest.email,
                      code |-> calls[p].inviteCode,
                      request_id |-> calls[p].requestId,
                      delivered |-> result = "ok",
                      threw |-> result = "threw"]})
  /\ calls' = Return(p, ApprovedResp(calls[p]))
  /\ approvedOk' = approvedOk \cup {calls[p].requestId}
  /\ UNCHANGED <<founders_requests, founders_invite_codes, overlapped, now,
                 modalVars>>

\* route.ts 264-273: the email is sent
ApproveEmail(p) == ApproveSend(p, "ok")

\* route.ts 277-280: sendOrderEmail throws
ApproveEmailThrows(p) == ApproveSend(p, "threw")

\* mutant of ApproveEmailError: the mailer's failure reaches the outer catch
ApproveEmailErrorReturned(p) ==
  /\ calls[p].pc = "a_email"
  /\ sentEmails' = sentEmails (+) SetToBag({
                     [to |-> calls[p].foundersRequest.email,
                      code |-> calls[p].inviteCode,
                      request_id |-> calls[p].requestId,
                      delivered |-> FALSE,
                      threw |-> FALSE]})
  /\ calls' = Return(p, ErrorResp(500, ErrUnexpected))
  /\ UNCHANGED <<founders_requests, founders_invite_codes, histVars, modalVars>>

\* route.ts 274-276: the mailer reports a failure
ApproveEmailError(p) == ApproveSend(p, "failed")

(* ------------------------ RequestAccessModal --------------------------- *)

ErrNetwork == "Network error. Please check your connection and try again."

\* RequestAccessModal.tsx 20-27
EmptyForm ==
  [firstName |-> <<>>, lastName |-> <<>>, email |-> <<>>, phone |-> <<>>,
   profession |-> <<>>, note |-> <<>>]

\* the inputs marked `required` (RequestAccessModal.tsx 142-217)
RequiredInputs == {"firstName", "lastName", "email", "phone", "profession"}

\* what a visitor may type into each input
Typed(name) ==
  CASE name = "firstName" -> { <<>>, <<"J">> }
    [] name = "lastName" -> { <<>>, <<"D">> }
    [] name = "email" -> { <<>>, EmailUpper }
    [] name = "phone" -> { <<>>, Phone1 }
    [] name = "profession" -> { <<>>, Profession1 }
    [] OTHER -> { <<>> }

\* RequestAccessModal.tsx 32-38
handleChange(name, value) ==
  /\ ~success
  /\ formData' = [formData EXCEPT ![name] = value]
  /\ error' = ""
  /\ UNCHANGED <<storeVars, calls, histVars, loading, success, fetchCall>>

\* RequestAccessModal.tsx 40-52: the submit event fires only with every
\* required input filled and the button enabled; the body is formData itself
handleSubmit ==
  /\ ~success
  /\ ~loading
  /\ \A name \in RequiredInputs : formData[name] # <<>>
  /\ loading' = TRUE
  /\ error' = ""
  /\ \E p \in Procs :
       /\ IntakeBegin(p, formData, "form")
       /\ fetchCall' = p
  /\ UNCHANGED <<storeVars, histVars, formData, success>>

\* a response whose body is not JSON (an error page of the hosting layer)
NonJsonResp(st) == [NoResp EXCEPT !.status = st, !.json = FALSE]

\* what a server behind /api/founders/request may answer to the modal
ServerResponses ==
  { [NoResp EXCEPT !.status = 200, !.success = TRUE, !.requestId = 1],
    [NoResp EXCEPT !.status = 200],
    ErrorResp(400, ErrPending),
    ErrorResp(500, ErrSubmit),
    ErrorResp(500, ""),
    NonJsonResp(502) }

\* RequestAccessModal.tsx 40-52 in front of any server: the request is sent
\* and the answer is awaited
handleSubmitSend ==
  /\ ~success
  /\ ~loading
  /\ \A name \in RequiredInputs : formData[name] # <<>>
  /\ loading' = TRUE
  /\ error' = ""
  /\ \E p \in Procs :
       /\ Free(p)
       /\ calls' = [calls EXCEPT ![p] =
                      [Idle EXCEPT !.op = "intake", !.origin = "form",
                                   !.pc = "f_wait", !.body = formData]]
       /\ fetchCall' = p
  /\ UNCHANGED <<storeVars, histVars, formData, success>>

\* the server answers the awaited request
serverAnswers(p) ==
  /\ calls[p].pc = "f_wait"
  /\ \E r \in ServerResponses : calls' = Return(p, r)
  /\ UNCHANGED <<storeVars, histVars, modalVars>>

\* mutant of fetchResolved: data.success is not looked at
fetchResolvedOkOnly ==
  /\ fetchCall # 0
  /\ calls[fetchCall].pc = "done"
  /\ calls[fetchCall].resp.json
  /\ LET data == calls[fetchCall].resp
         ok == data.status >= 200 /\ data.status <= 299
     IN  IF ok
           THEN success' = TRUE /\ error' = error
           ELSE /\ error' = IF data.error # "" THEN data.error ELSE ErrSubmit
                /\ success' = success
  /\ loading' = FALSE
  /\ fetchCall' = 0
  /\ UNCHANGED <<storeVars, calls, histVars, formData>>

\* RequestAccessModal.tsx 54-61, 65-67: the response arrives and its body
\* parses; onSuccess, when given, returns
fetchResolved ==
  /\ fetchCall # 0
  /\ calls[fetchCall].pc = "done"
  /\ calls[fetchCall].resp.json
  /\ LET data == calls[fetchCall].resp
         ok == data.status >= 200 /\ data.status <= 299
     IN  IF ok /\ data.success
           THEN success' = TRUE /\ error' = error
           ELSE /\ error' = IF data.error # "" THEN data.error ELSE ErrSubmit
                /\ success' = success
  /\ loading' = FALSE
  /\ fetchCall' = 0
  /\ UNCHANGED <<storeVars, calls, histVars, formData>>

\* RequestAccessModal.tsx 54, 62-67: the response arrives and response.json()
\* throws
jsonRejected ==
  /\ fetchCall # 0
  /\ calls[fetchCall].pc = "done"
  /\ ~calls[fetchCall].resp.json
  /\ error' = ErrNetwork
  /\ loading' = FALSE
  /\ fetchCall' = 0
  /\ UNCHANGED <<storeVars, calls, histVars, formData, success>>

\* mutant of fetchRejected: the finally block is missing
fetchRejectedLoadingKept ==
  /\ fetchCall # 0
  /\ calls[fetchCall].pc # "done"
  /\ error' = ErrNetwork
  /\ fetchCall' = 0
  /\ UNCHANGED <<storeVars, calls, histVars, formData, success, loading>>

\* RequestAccessModal.tsx 62-67: fetch rejects, no response arrives
fetchRejected ==
  /\ fetchCall # 0
  /\ calls[fetchCall].pc # "done"
  /\ error' = ErrNetwork
  /\ loading' = FALSE
  /\ fetchCall' = 0
  /\ UNCHANGED <<storeVars, calls, histVars, formData, success>>

\* RequestAccessModal.tsx 70-75
handleClose ==
  /\ formData' = EmptyForm
  /\ success' = FALSE
  /\ error' = ""
  /\ UNCHANGED <<storeVars, calls, histVars, loading, fetchCall>>

(* --------------------------- specifications ---------------------------- *)

Init ==
  /\ founders_requests = <<>>
  /\ founders_invite_codes = EmptyBag
  /\ sentEmails = EmptyBag
  /\ calls = [p \in Procs |-> Idle]
  /\ approvedOk = {}
  /\ overlapped = {}
  /\ formData = EmptyForm
  /\ loading = FALSE
  /\ success = FALSE
  /\ error = ""
  /\ fetchCall = 0
  /\ now = 0

\* the three handlers against a store and a mailer that answer every call
Next ==
  \/ \E p \in Procs : IntakeStart(p)
  \/ \E p \in Procs : IntakeCheckPending(p)
  \/ \E p \in Procs : IntakeCheckApproved(p)
  \/ \E p \in Procs : IntakeInsert(p)
  \/ \E p \in Procs : GetStart(p)
  \/ \E p \in Procs : GetQuery(p)
  \/ \E p \in Procs : ApproveStart(p)
  \/ \E p \in Procs : ApproveFetch(p)
  \/ \E p \in Procs : ApproveCheckCode(p)
  \/ \E p \in Procs : ApproveInsertCode(p)
  \/ \E p \in Procs : ApproveUpdate(p)
  \/ \E p \in Procs : ApproveEmail(p)

Spec == Init /\ [][Next]_vars

\* only the best-effort status update of approval may fail
NextUpdateFails == Next \/ \E p \in Procs : ApproveUpdateError(p)

SpecUpdateFails == Init /\ [][NextUpdateFails]_vars

\* only the notification email of approval may fail
NextEmailFails ==
  \/ Next
  \/ \E p \in Procs : ApproveEmailError(p)
  \/ \E p \in Procs : ApproveEmailThrows(p)

SpecEmailFails == Init /\ [][NextEmailFails]_vars

\* any store call may fail, except the best-effort status update of approval
NextStoreFails ==
  \/ Next
  \/ \E p \in Procs : IntakeCheckPendingError(p)
  \/ \E p \in Procs : IntakeCheckApprovedError(p)
  \/ \E p \in Procs : IntakeInsertError(p)
  \/ \E p \in Procs : GetQueryError(p)
  \/ \E p \in Procs : ApproveFetchError(p)
  \/ \E p \in Procs : ApproveCheckCodeError(p)
  \/ \E p \in Procs : ApproveInsertCodeError(p)

SpecStoreFails == Init /\ [][NextStoreFails]_vars

\* two applicants with different emails and phones apply and are approved;
\* the store and the mailer answer every call
NextApplicants ==
  \/ \E p \in Procs : IntakeStartApplicant(p)
  \/ \E p \in Procs : IntakeCheckPending(p)
  \/ \E p \in Procs : IntakeCheckApproved(p)
  \/ \E p \in Procs : IntakeInsert(p)
  \/ \E p \in Procs : ApproveStart(p)
  \/ \E p \in Procs : ApproveFetch(p)
  \/ \E p \in Procs : ApproveCheckCode(p)
  \/ \E p \in Procs : ApproveInsertCode(p)
  \/ \E p \in Procs : ApproveUpdate(p)
  \/ \E p \in Procs : ApproveEmail(p)

SpecApplicants == Init /\ [][NextApplicants]_vars

\* the two applicants, with the code insert and the mailer of approval failing
NextApplicantsFail ==
  \/ NextApplicants
  \/ \E p \in Procs : ApproveInsertCodeError(p)
  \/ \E p \in Procs : ApproveEmailError(p)
  \/ \E p \in Procs : ApproveEmailThrows(p)

SpecApplicantsFail == Init /\ [][NextApplicantsFail]_vars

\* instants at which the server may run: far from a change of its local
\* clocks, and less than 72 hours before one
Clocks == {0, 40}

InitClock ==
  /\ founders_requests = <<>>
  /\ founders_invite_codes = EmptyBag
  /\ sentEmails = EmptyBag
  /\ calls = [p \in Procs |-> Idle]
  /\ approvedOk = {}
  /\ overlapped = {}
  /\ formData = EmptyForm
  /\ loading = FALSE
  /\ success = FALSE
  /\ error = ""
  /\ fetchCall = 0
  /\ now \in Clocks

\* the handlers on a server at any of these instants
SpecClock == InitClock /\ [][Next]_vars

\* the modal in front of the intake handler
NextForm ==
  \/ \E name \in DOMAIN EmptyForm : \E value \in Typed(name) : handleChange(name, value)
  \/ handleSubmit
  \/ fetchResolved
  \/ handleClose
  \/ \E p \in Procs : IntakeStart(p)
  \/ \E p \in Procs : IntakeCheckPending(p)
  \/ \E p \in Procs : IntakeCheckApproved(p)
  \/ \E p \in Procs : IntakeInsert(p)

SpecForm == Init /\ [][NextForm]_vars

\* the modal in front of a server that may answer anything, or not at all
NextModal ==
  \/ \E name \in DOMAIN EmptyForm : \E value \in Typed(name) : handleChange(name, value)
  \/ handleSubmitSend
  \/ \E p \in Procs : serverAnswers(p)
  \/ fetchResolved
  \/ jsonRejected
  \/ fetchRejected
  \/ handleClose

SpecModal == Init /\ [][NextModal]_vars

(* ------------------------------- claims -------------------------------- *)

Pending(i) == founders_requests[i].status = "pending"

Approved(i) == founders_requests[i].status = "approved"

SameEmail(a, b) == ToLowerCase(a) = ToLowerCase(b)

\* the invocation in slot p takes a step
Steps(p) == calls'[p] # calls[p]

\* C1: in every reachable state there is at most one pending row for any
\* lower-cased email.
AtMostOnePendingPerEmail ==
  \A i, j \in DOMAIN founders_requests :
    (/\ i # j
     /\ Pending(i)
     /\ Pending(j))
      => ~SameEmail(founders_requests[i].email, founders_requests[j].email)

\* C2: in every reachable state no two invite-code rows share a code string.
InviteCodesUnique ==
  \A row \in BagToSet(founders_invite_codes) :
    BagCardinality(CodeRowsWith(founders_invite_codes, row.code)) = 1

\* C3: once an approval of a request has returned success, and no two
\* approvals of that request ran at the same time, an approval that fetches the
\* request is answered 400 'Request has already been processed' and exactly one
\* invite-code row has that request id.
RepeatedApprovalConflicts ==
  \A r \in approvedOk \ overlapped :
    /\ GuardAnswer(founders_requests, r) = ErrorResp(400, ErrProcessed)
    /\ BagCardinality(CodeRowsOf(founders_invite_codes, r)) = 1

PastGuard(p) ==
  calls[p].op = "approve" /\ calls[p].pc \in {"a_loop", "a_insert", "a_update", "a_email"}

\* C4: the status read is the only guard of approval: every approval past the
\* guard read its request as pending, and its insert adds an invite-code row
\* whether or not the request already has one, so two approvals that both read
\* pending both insert.
ConcurrentApprovalsBothInsert ==
  [][\A p \in Procs :
       /\ PastGuard(p) =>
            /\ calls[p].foundersRequest.id = calls[p].requestId
            /\ calls[p].foundersRequest.status = "pending"
       /\ (calls[p].pc = "a_insert" /\ calls'[p].pc = "a_update") =>
            BagCardinality(CodeRowsOf(founders_invite_codes', calls[p].requestId))
              = BagCardinality(CodeRowsOf(founders_invite_codes, calls[p].requestId)) + 1
    ]_vars

\* C4 witness: two approvals of one request have both inserted, neither has
\* written the status yet, and the request has two invite-code rows.
TwoCodeRowsForOneRequest ==
  \E p, q \in Procs :
    /\ p # q
    /\ calls[p].pc = "a_update"
    /\ calls[q].pc = "a_update"
    /\ calls[p].requestId = calls[q].requestId
    /\ Pending(calls[p].requestId)
    /\ BagCardinality(CodeRowsOf(founders_invite_codes, calls[p].requestId)) = 2

\* C5: a request row is never deleted, its status is pending or approved, an
\* approved row stays approved, and the only change of a status is
\* pending -> approved.
StatusOnlyPendingToApproved ==
  [][/\ Len(founders_requests') >= Len(founders_requests)
     /\ \A i \in DOMAIN founders_requests' :
          founders_requests'[i].status \in {"pending", "approved"}
     /\ \A i \in DOMAIN founders_requests :
          /\ founders_requests'[i].id = founders_requests[i].id
          /\ Approved(i) => founders_requests'[i].status = "approved"
          /\ founders_requests'[i].status # founders_requests[i].status
               => Pending(i) /\ founders_requests'[i].status = "approved"
    ]_vars

\* C5 witness: a row was approved and an intake inserted a row after it.
ApprovedRowOutlivesLaterInsert ==
  /\ Len(founders_requests) = 2
  /\ Approved(1)
  /\ Pending(2)

\* C6: an intake whose pending check runs while a pending row exists for its
\* email, compared case-insensitively, answers 400 'You already have a pending
\* request' and inserts no row.
PendingDuplicateRejected ==
  [][\A p \in Procs :
       (/\ calls[p].pc = "i_checkPending"
        /\ Steps(p)
        /\ \E i \in DOMAIN founders_requests :
             Pending(i) /\ SameEmail(founders_requests[i].email, calls[p].body["email"]))
         => /\ calls'[p].pc = "done"
            /\ calls'[p].resp = ErrorResp(400, ErrPending)
            /\ founders_requests' = founders_requests
    ]_vars

\* C7: an intake whose approved check runs while an approved row exists for
\* its email answers 400 'This email is already approved' and inserts no row.
ApprovedDuplicateRejected ==
  [][\A p \in Procs :
       (/\ calls[p].pc = "i_checkApproved"
        /\ Steps(p)
        /\ \E i \in DOMAIN founders_requests :
             Approved(i) /\ SameEmail(founders_requests[i].email, calls[p].body["email"]))
         => /\ calls'[p].pc = "done"
            /\ calls'[p].resp = ErrorResp(400, ErrApproved)
            /\ founders_requests' = founders_requests
    ]_vars

\* C8: an intake with valid fields passes the pending check when no pending row
\* has its email, passes the approved check when no approved row has its email,
\* and its insert answers success with the id of the new row; a status lookup
\* for that email in the state after the insert reports hasRequest = true with
\* status pending.
ValidNewSubmissionSucceeds ==
  [][\A p \in Procs :
       /\ (/\ calls[p].pc = "i_checkPending"
           /\ Steps(p)
           /\ ~\E i \in DOMAIN founders_requests :
                 Pending(i) /\ SameEmail(founders_requests[i].email, calls[p].body["email"]))
            => calls'[p].pc = "i_checkApproved"
       /\ (/\ calls[p].pc = "i_checkApproved"
           /\ Steps(p)
           /\ ~\E i \in DOMAIN founders_requests :
                 Approved(i) /\ SameEmail(founders_requests[i].email, calls[p].body["email"]))
            => calls'[p].pc = "i_insert"
       /\ (calls[p].pc = "i_insert" /\ Steps(p))
            => /\ calls'[p].pc = "done"
               /\ calls'[p].resp.status = 200
               /\ calls'[p].resp.success
               /\ calls'[p].resp.requestId = Len(founders_requests')
               /\ Len(founders_requests') = Len(founders_requests) + 1
               /\ LET looked == StatusResponse(founders_requests', calls[p].body["email"])
                  IN  /\ looked.success
                      /\ looked.hasRequest
                      /\ looked.rstatus = "pending"
    ]_vars

\* C8 witness: an intake has answered success and the lookup for the email of
\* its row reports that pending row.
AcceptedSubmissionLooksPending ==
  \E p \in Procs :
    /\ calls[p].op = "intake"
    /\ calls[p].pc = "done"
    /\ calls[p].resp.success
    /\ LET row == founders_requests[calls[p].resp.requestId]
           looked == StatusResponse(founders_requests, EmailUpper)
       IN  /\ SameEmail(row.email, EmailUpper)
           /\ looked.hasRequest
           /\ looked.rstatus = "pending"
           /\ looked.createdAt = row.created_at

\* the modal's fetch reaches the handler in this step
FormCallArrives == fetchCall = 0 /\ fetchCall' # 0

\* C9: a submission of the modal with the five required inputs filled and a
\* well-formed email reaches the intake handler with a non-empty fullName and
\* passes the required-field validation; when no request row has that email it
\* ends in success with a new pending row.
FormSubmissionCreatesRequest ==
  [][/\ (FormCallArrives /\ EmailRegexTest(formData["email"]))
          => /\ ~Falsy(calls'[fetchCall'].body, "fullName")
             /\ calls'[fetchCall'].pc = "i_checkPending"
     /\ (/\ fetchCall' # 0
         /\ calls'[fetchCall'].pc = "done"
         /\ fetchCall = 0 \/ calls[fetchCall].pc # "done"
         /\ ~\E i \in DOMAIN founders_requests :
               SameEmail(founders_requests[i].email, formData["email"]))
          => /\ calls'[fetchCall'].resp.success
             /\ Len(founders_requests') = Len(founders_requests) + 1
             /\ founders_requests'[Len(founders_requests')].status = "pending"
    ]_vars

NoUpperChar(s) == \A i \in DOMAIN s : ~IsUpperChar(s[i])

\* C10: the step in which an intake answers success appends exactly one row
\* to founders_requests, with status pending, the id that is returned and the
\* email of the body in lower case; it leaves every existing request row, the
\* invite-code table and the sent emails as they were.
SuccessfulIntakeFrame ==
  [][\A p \in Procs :
       (/\ Steps(p)
        /\ calls'[p].op = "intake"
        /\ calls'[p].pc = "done"
        /\ calls'[p].resp.success)
         => /\ calls[p].pc = "i_insert"
            /\ Len(founders_requests') = Len(founders_requests) + 1
            /\ \A i \in DOMAIN founders_requests :
                 founders_requests'[i] = founders_requests[i]
            /\ LET row == founders_requests'[Len(founders_requests')]
               IN  /\ row.status = "pending"
                   /\ row.id = calls'[p].resp.requestId
                   /\ NoUpperChar(row.email)
                   /\ Len(row.email) = Len(calls[p].body["email"])
                   /\ \A k \in DOMAIN row.email :
                        \/ row.email[k] = calls[p].body["email"][k]
                        \/ /\ IsUpperChar(calls[p].body["email"][k])
                           /\ ~IsUpperChar(row.email[k])
            /\ founders_invite_codes' = founders_invite_codes
            /\ sentEmails' = sentEmails
    ]_vars

\* C10 witness: a body with an upper-case email was accepted while invite codes
\* and sent emails already existed, and its row holds the lower-case email.
UpperCaseEmailStoredLower ==
  \E p \in Procs :
    /\ calls[p].op = "intake"
    /\ calls[p].pc = "done"
    /\ calls[p].resp.success
    /\ founders_requests[calls[p].resp.requestId].email = EmailLower
    /\ founders_requests[calls[p].resp.requestId].status = "pending"
    /\ founders_invite_codes # EmptyBag
    /\ sentEmails # EmptyBag

\* the fields the intake handler requires
RequiredFields == {"fullName", "email", "phone", "profession"}

\* local@domain.tld: one '@', no white space, something before the '@', and
\* after it a '.' with something on both sides
LocalAtDomainTld(s) ==
  /\ Cardinality({ i \in DOMAIN s : s[i] = "@" }) = 1
  /\ \A i \in DOMAIN s : s[i] # " "
  /\ LET at == CHOOSE i \in DOMAIN s : s[i] = "@"
     IN  /\ at > 1
         /\ \E d \in DOMAIN s : s[d] = "." /\ d > at + 1 /\ d < Len(s)

\* an intake invocation enters slot p in this step
IntakeArrives(p) == Vacant(p) /\ Steps(p) /\ calls'[p].op = "intake"

\* C11: an intake call in which fullName, email, phone or profession is
\* absent or empty, or whose email does not have the form local@domain.tld, is
\* answered 400 with success = false and leaves founders_requests unchanged:
\* a call either ends at once with that answer, or goes on to the duplicate
\* checks holding a body with the four fields filled and a well-formed email.
InvalidIntakeRejected ==
  [][\A p \in Procs :
       IntakeArrives(p) =>
         \/ /\ calls'[p].pc = "done"
            /\ calls'[p].resp.status = 400
            /\ ~calls'[p].resp.success
            /\ calls'[p].resp.error \in {ErrRequired, ErrEmailFormat}
            /\ founders_requests' = founders_requests
         \/ /\ calls'[p].pc = "i_checkPending"
            /\ \A k \in RequiredFields :
                 k \in DOMAIN calls'[p].body /\ Len(calls'[p].body[k]) > 0
            /\ LocalAtDomainTld(calls'[p].body["email"])
            /\ founders_requests' = founders_requests
    ]_vars

\* C11 witness: with a request row stored, one intake was answered 400 for a
\* missing field and another 400 for a malformed email.
BothValidationErrorsAnswered ==
  \E p, q \in Procs :
    /\ calls[p].op = "intake" /\ calls[p].pc = "done"
    /\ calls[p].resp = ErrorResp(400, ErrRequired)
    /\ calls[q].op = "intake" /\ calls[q].pc = "done"
    /\ calls[q].resp = ErrorResp(400, ErrEmailFormat)
    /\ Len(founders_requests) >= 1

\* an approve invocation enters slot p in this step
ApproveArrives(p) == Vacant(p) /\ Steps(p) /\ calls'[p].op = "approve"

\* the fetch of the approval in slot p is answered in this step
FetchAnswered(p) == calls[p].pc = "a_fetch" /\ Steps(p)

\* C12: an approval whose requestId is the id of no request row is answered
\* 404 'Request not found'; from its arrival to that answer no invite-code row
\* is inserted, no request row changes and no email is sent.
UnknownRequestNotFound ==
  [][\A p \in Procs :
       /\ ApproveArrives(p) => UNCHANGED storeVars
       /\ (/\ FetchAnswered(p)
           /\ ~\E i \in DOMAIN founders_requests :
                 founders_requests[i].id = calls[p].requestId)
            => /\ calls'[p].pc = "done"
               /\ calls'[p].resp.status = 404
               /\ ~calls'[p].resp.success
               /\ calls'[p].resp.error = ErrNotFound
               /\ UNCHANGED storeVars
    ]_vars

\* C12 witness: an approval was answered 404 while request rows, invite codes
\* and sent emails existed.
NotFoundAnsweredBesideRows ==
  \E p \in Procs :
    /\ calls[p].op = "approve"
    /\ calls[p].pc = "done"
    /\ calls[p].resp = ErrorResp(404, ErrNotFound)
    /\ Len(founders_requests) = 1
    /\ founders_invite_codes # EmptyBag
    /\ sentEmails # EmptyBag

\* C13: an approval whose fetch reads a request row with a status other than
\* pending is answered 400 'Request has already been processed', and inserts
\* no invite-code row, changes no request row and sends no email.
ProcessedRequestConflicts ==
  [][\A p \in Procs :
       (/\ FetchAnswered(p)
        /\ \E i \in DOMAIN founders_requests :
             /\ founders_requests[i].id = calls[p].requestId
             /\ founders_requests[i].status # "pending")
         => /\ calls'[p].pc = "done"
            /\ calls'[p].resp.status = 400
            /\ ~calls'[p].resp.success
            /\ calls'[p].resp.error = ErrProcessed
            /\ UNCHANGED storeVars
    ]_vars

\* C13 witness: an approval of an approved request was answered 400 and the
\* request still has the one invite-code row and the one email of its
\* approval.
ConflictAnsweredForApproved ==
  \E p \in Procs :
    /\ calls[p].op = "approve"
    /\ calls[p].pc = "done"
    /\ calls[p].resp = ErrorResp(400, ErrProcessed)
    /\ Len(founders_requests) = 1
    /\ Approved(1)
    /\ BagCardinality(founders_invite_codes) = 1
    /\ BagCardinality(sentEmails) = 1

\* the uniqueness check of the approval in slot p is answered in this step
CodeChecked(p) == calls[p].pc = "a_loop" /\ Steps(p)

\* candidate c is the code of some invite-code row
AmongExistingCodes(c) ==
  \E row \in BagToSet(founders_invite_codes) : row.code = c

\* C14: the uniqueness loop of approval makes at most 10 checks; it is left
\* for the insert only with a candidate that no invite-code row holds, a
\* candidate that some row holds is replaced by a new draw, and after the
\* tenth collision the call is answered 500 'Failed to generate unique code'
\* with no code row inserted, no status changed and no email sent.
UniquenessLoopStopsAtFreeCode ==
  [][\A p \in Procs :
       CodeChecked(p) =>
         /\ calls[p].attempts < maxAttempts
         /\ UNCHANGED storeVars
         /\ IF AmongExistingCodes(calls[p].inviteCode)
              THEN IF calls[p].attempts + 1 < maxAttempts
                     THEN /\ calls'[p].pc = "a_loop"
                          /\ calls'[p].attempts = calls[p].attempts + 1
                     ELSE /\ calls'[p].pc = "done"
                          /\ calls'[p].resp = ErrorResp(500, ErrGenerate)
              ELSE /\ calls'[p].pc = "a_insert"
                   /\ calls'[p].inviteCode = calls[p].inviteCode
    ]_vars

\* the status update of the approval in slot p is answered in this step
UpdateAnswered(p) == calls[p].pc = "a_update" /\ Steps(p)

\* the approval in slot p answers in this step after its status update failed
AnswersAfterFailedUpdate(p) ==
  calls[p].pc = "a_email" /\ calls[p].updateError /\ Steps(p)

\* the invite-code row the approval in slot p inserted is in the table
OwnCodeRowStored(p, codes) == BagIn(NewCodeRow(calls[p]), codes)

\* C15 as stated: when the status update of an approval fails after its code
\* row was inserted, the call returns success with the code and the expiry,
\* the code row stays, and the request row has status pending.
FailedUpdateLeavesPending ==
  [][\A p \in Procs :
       AnswersAfterFailedUpdate(p) =>
         /\ calls'[p].resp.success
         /\ calls'[p].resp.code = calls[p].inviteCode
         /\ calls'[p].resp.expiresAt = calls[p].expiresAt
         /\ OwnCodeRowStored(p, founders_invite_codes')
         /\ founders_requests'[calls[p].requestId].status = "pending"
    ]_vars

\* C15 amended: the status update of an approval never ends the call; when
\* it fails, the request table is left exactly as the update found it, the
\* code row stays, and the call returns 200 success with the code and the
\* expiry of that row; the request row is still pending at that return when
\* no other approval of the same request overlapped this one.
FailedUpdateStillSucceeds ==
  [][\A p \in Procs :
       /\ UpdateAnswered(p) =>
            /\ calls'[p].pc = "a_email"
            /\ founders_invite_codes' = founders_invite_codes
            /\ sentEmails' = sentEmails
            /\ OwnCodeRowStored(p, founders_invite_codes')
            /\ calls'[p].updateError => founders_requests' = founders_requests
       /\ AnswersAfterFailedUpdate(p) =>
            /\ calls'[p].pc = "done"
            /\ calls'[p].resp.status = 200
            /\ calls'[p].resp.success
            /\ calls'[p].resp.code = calls[p].inviteCode
            /\ calls'[p].resp.expiresAt = calls[p].expiresAt
            /\ OwnCodeRowStored(p, founders_invite_codes')
            /\ founders_requests' = founders_requests
            /\ calls[p].requestId \notin overlapped
                 => founders_requests'[calls[p].requestId].status = "pending"
    ]_vars

\* C15 witness: an approval has returned success with the code and expiry of
\* a stored code row while the request of that row is still pending.
SuccessReturnedWhilePending ==
  \E p \in Procs :
    /\ calls[p].op = "approve"
    /\ calls[p].pc = "done"
    /\ calls[p].resp.success
    /\ \E row \in BagToSet(founders_invite_codes) :
         /\ row.code = calls[p].resp.code
         /\ row.expires_at = calls[p].resp.expiresAt
         /\ row.request_id \in approvedOk \ overlapped
         /\ Pending(row.request_id)

\* the approval in slot p answers in this step and its email was not delivered
EmailFailed(p) ==
  /\ calls[p].pc = "a_email"
  /\ Steps(p)
  /\ \E m \in BagToSet(sentEmails') :
       ~m.delivered /\ CopiesIn(m, sentEmails') = CopiesIn(m, sentEmails) + 1

\* C16: when the notification email of an approval fails, the call still
\* returns 200 success with the code and the expiry, its invite-code row stays
\* in the table and the request keeps the status approved.
FailedEmailStillSucceeds ==
  [][\A p \in Procs :
       EmailFailed(p) =>
         /\ calls'[p].pc = "done"
         /\ calls'[p].resp.status = 200
         /\ calls'[p].resp.success
         /\ calls'[p].resp.code = calls[p].inviteCode
         /\ calls'[p].resp.expiresAt = calls[p].expiresAt
         /\ founders_invite_codes' = founders_invite_codes
         /\ OwnCodeRowStored(p, founders_invite_codes')
         /\ founders_requests' = founders_requests
         /\ founders_requests'[calls[p].requestId].status = "approved"
    ]_vars

\* C16 witness: one approval's mailer reported a failure, another's threw, no
\* email was delivered, and the approval whose mailer threw returned success
\* with the code row that is stored for its approved request.
SuccessReturnedWithoutEmail ==
  \E p \in Procs :
    /\ calls[p].op = "approve"
    /\ calls[p].pc = "done"
    /\ calls[p].resp.success
    /\ \E row \in BagToSet(founders_invite_codes) :
         /\ row.code = calls[p].resp.code
         /\ row.expires_at = calls[p].resp.expiresAt
         /\ Approved(row.request_id)
         /\ \A m \in BagToSet(sentEmails) : ~m.delivered
         /\ \E m \in BagToSet(sentEmails) :
              m.code = row.code /\ m.request_id = row.request_id /\ m.threw
         /\ \E m \in BagToSet(sentEmails) : ~m.threw

\* the store call the invocation in slot p awaited returns an error in this step
StoreCallFailed(p) == Steps(p) /\ calls'[p].storeError

\* C17: in the intake, the status lookup and the approval, a store call that
\* fails ends the invocation with a 500 response with success = false (the
\* status update of approval aside).
StoreFailureAnswers500 ==
  [][\A p \in Procs :
       StoreCallFailed(p) =>
         /\ calls'[p].pc = "done"
         /\ calls'[p].resp.status = 500
         /\ ~calls'[p].resp.success
    ]_vars

\* C18: the expiresAt of every invite-code row, and the expiresAt every
\* successful approval returns, is exactly 72 hours after the time of the
\* approval call.
ExpiryIs72HoursAfterCall ==
  /\ \A row \in BagToSet(founders_invite_codes) : row.expires_at = now + 72
  /\ \A p \in Procs :
       (calls[p].op = "approve" /\ calls[p].pc = "done" /\ calls[p].resp.success)
         => calls[p].resp.expiresAt = now + 72

\* a status lookup enters slot p in this step
GetArrives(p) == Vacant(p) /\ Steps(p) /\ calls'[p].op = "get"

\* the query of the status lookup in slot p is answered in this step
QueryAnswered(p) == calls[p].pc = "g_query" /\ Steps(p)

\* the request rows whose email is the lower-cased e
RowsForEmail(e) ==
  { i \in DOMAIN founders_requests : founders_requests[i].email = ToLowerCase(e) }

\* C19: a status lookup for an email answers hasRequest = false when no
\* request row has the lower-cased email, and otherwise hasRequest = true with
\* the status and the creation time of a row whose creation time is the
\* greatest among the rows with that email; it changes no row.
LookupReportsNewestRow ==
  [][\A p \in Procs :
       /\ GetArrives(p) => UNCHANGED storeVars
       /\ QueryAnswered(p) =>
            /\ UNCHANGED storeVars
            /\ calls'[p].pc = "done"
            /\ calls'[p].resp.success
            /\ IF RowsForEmail(calls[p].email) = {}
                 THEN ~calls'[p].resp.hasRequest
                 ELSE /\ calls'[p].resp.hasRequest
                      /\ \E i \in RowsForEmail(calls[p].email) :
                           /\ \A j \in RowsForEmail(calls[p].email) :
                                founders_requests[i].created_at
                                  >= founders_requests[j].created_at
                           /\ calls'[p].resp.rstatus = founders_requests[i].status
                           /\ calls'[p].resp.createdAt
                                = founders_requests[i].created_at
    ]_vars

\* C19 witness: two rows hold the email, the older approved and the newer
\* pending, and a lookup has reported the newer one.
LookupAnsweredNewerOfTwo ==
  /\ Len(founders_requests) = 2
  /\ founders_requests[1].email = founders_requests[2].email
  /\ Approved(1)
  /\ Pending(2)
  /\ \E p \in Procs :
       /\ calls[p].op = "get"
       /\ calls[p].pc = "done"
       /\ calls[p].resp.hasRequest
       /\ calls[p].resp.rstatus = "pending"
       /\ calls[p].resp.createdAt = founders_requests[2].created_at

Digits == {"0", "1", "2", "3", "4", "5", "6", "7", "8", "9"}

\* upper-case letters and digits without I, O, 0 and 1
CodeAlphabet ==
  ({ UpperChars[i] : i \in DOMAIN UpperChars } \cup Digits) \ {"I", "O", "0", "1"}

\* 'FC-' followed by exactly 8 symbols of the alphabet
WellFormedCode(c) ==
  /\ Len(c) = 3 + 8
  /\ SubSeq(c, 1, 3) = <<"F", "C", "-">>
  /\ \A i \in 4..Len(c) : c[i] \in CodeAlphabet

\* eight draws of Math.floor(Math.random() * 32) that are 0 everywhere but
\* at position k, where the draw is v
DrawAt(k, v) == [i \in 1..8 |-> IF i = k THEN v ELSE 0]

\* C20: the alphabet has 32 symbols; generateInviteCode gives 'FC-' followed
\* by exactly 8 symbols of it, for every value 0..31 of the draw at every
\* position; and every code that an approval holds, has stored, has mailed
\* or has returned has that form.
CodesWellFormed ==
  /\ Cardinality(CodeAlphabet) = 32
  /\ \A k \in 1..8 : \A v \in 0..31 :
       WellFormedCode(generateInviteCode(DrawAt(k, v)))
  /\ \A d \in DrawPool : WellFormedCode(generateInviteCode(d))
  /\ \A row \in BagToSet(founders_invite_codes) : WellFormedCode(row.code)
  /\ \A m \in BagToSet(sentEmails) : WellFormedCode(m.code)
  /\ \A p \in Procs :
       /\ PastGuard(p) => WellFormedCode(calls[p].inviteCode)
       /\ (calls[p].op = "approve" /\ calls[p].pc = "done" /\ calls[p].resp.success)
            => WellFormedCode(calls[p].resp.code)

\* C20 witness: an approval has returned the code FC-9HHHHHHH, drawn from
\* both ends of the alphabet, and that code is stored and was mailed.
DrawnCodeStoredAndReturned ==
  \E p \in Procs :
    /\ calls[p].op = "approve"
    /\ calls[p].pc = "done"
    /\ calls[p].resp.success
    /\ calls[p].resp.code = <<"F", "C", "-", "9", "H", "H", "H", "H", "H", "H", "H">>
    /\ \E row \in BagToSet(founders_invite_codes) : row.code = calls[p].resp.code
    /\ \E m \in BagToSet(sentEmails) : m.code = calls[p].resp.code

\* the submission of the modal ends in this step
SubmissionEnds == fetchCall # 0 /\ fetchCall' = 0

\* response.ok
ResponseOk(r) == r.status >= 200 /\ r.status <= 299

LoadingClearedWhenSubmissionEnds ==
  [][/\ FormCallArrives => loading'
     /\ SubmissionEnds => ~loading'
     /\ fetchCall' = 0 => ~loading'
     /\ fetchCall' # 0 => loading'
    ]_vars

\* C25 witness: a submission ended because the body of the response did not
\* parse, and the modal shows the network message with loading false.
LoadingClearedAfterParseError ==
  /\ ~loading
  /\ fetchCall = 0
  /\ error = ErrNetwork
  /\ ~success
  /\ \E p \in Procs :
       /\ calls[p].origin = "form"
       /\ calls[p].pc = "done"
       /\ ~calls[p].resp.json

\* the request row i has an invite-code row that refers to it
HasCodeRow(i) ==
  BagCardinality(CodeRowsOf(founders_invite_codes, founders_requests[i].id)) >= 1

\* C22: every request row with status = approved has at least one invite-code
\* row whose request_id is its id, also when store calls of other approvals
\* (the code insert among them) fail.
ApprovedRequestHasCode ==
  \A i \in DOMAIN founders_requests : Approved(i) => HasCodeRow(i)

\* C22 witness: an approved request with its code row beside a request that
\* has neither, left pending by an approval whose code insert failed.
ApprovedBesideFailedInsert ==
  /\ \E i \in DOMAIN founders_requests : Approved(i) /\ HasCodeRow(i)
  /\ \E j \in DOMAIN founders_requests : Pending(j) /\ ~HasCodeRow(j)
  /\ \E p \in Procs :
       /\ calls[p].op = "approve"
       /\ calls[p].pc = "done"
       /\ calls[p].storeError
       /\ calls[p].resp.status = 500
       /\ calls[p].resp.error = ErrCreateCode

\* the code row belongs to the request row i: it refers to i and repeats its
\* email and phone
CodeRowOf(row, reqs, i) ==
  /\ reqs[i].id = row.request_id
  /\ reqs[i].email = row.email
  /\ reqs[i].phone = row.phone

\* C23: the invite-code table changes only by an approval inserting one row
\* with its requestId, and every code row refers to an existing request row
\* and carries that row's email and phone.
CodeRowsBelongToRequests ==
  [][/\ founders_invite_codes' # founders_invite_codes =>
          \E p \in Procs :
            /\ calls[p].op = "approve"
            /\ calls[p].pc = "a_insert"
            /\ Steps(p)
            /\ \E row \in BagToSet(founders_invite_codes') :
                 /\ row.request_id = calls[p].requestId
                 /\ founders_invite_codes' =
                      founders_invite_codes (+) SetToBag({row})
     /\ \A row \in BagToSet(founders_invite_codes') :
          \E i \in DOMAIN founders_requests' :
            CodeRowOf(row, founders_requests', i)
    ]_vars

\* C23 witness: the two applicants' requests each have a code row, with
\* different emails and different phones.
BothApplicantsHoldCodes ==
  \E a \in BagToSet(founders_invite_codes) :
    \E b \in BagToSet(founders_invite_codes) :
      /\ a.request_id # b.request_id
      /\ a.email # b.email
      /\ a.phone # b.phone
      /\ \E i \in DOMAIN founders_requests : CodeRowOf(a, founders_requests, i)
      /\ \E j \in DOMAIN founders_requests : CodeRowOf(b, founders_requests, j)

\* the approval in slot p returns with this step
ApproveReturns(p) ==
  Steps(p) /\ calls'[p].op = "approve" /\ calls'[p].pc = "done"

\* C24: a step adds a message to the mailer's log only when it is the last
\* step of an approval whose code row is stored: one message, addressed to
\* the email of the request row with the call's requestId, carrying the code
\* of the success response the call returns with that same step (so a call
\* attempts at most one email). An approval that returns an error returns it
\* before or at the code insert and adds no message. The code of every
\* success response is the code of a code row with the call's requestId.
EmailOnceAfterCodeStored ==
  [][/\ sentEmails' # sentEmails =>
          \E p \in Procs :
            /\ calls[p].pc = "a_email"
            /\ ApproveReturns(p)
            /\ calls'[p].resp.success
            /\ OwnCodeRowStored(p, founders_invite_codes)
            /\ \E m \in BagToSet(sentEmails') :
                 /\ sentEmails' = sentEmails (+) SetToBag({m})
                 /\ m.code = calls'[p].resp.code
                 /\ \E i \in DOMAIN founders_requests :
                      /\ founders_requests[i].id = calls[p].requestId
                      /\ founders_requests[i].email = m.to
     /\ \A p \in Procs :
          ApproveReturns(p) /\ ~calls'[p].resp.success =>
            /\ calls[p].pc \in {"idle", "done", "a_fetch", "a_loop", "a_insert"}
            /\ sentEmails' = sentEmails
     /\ \A p \in Procs :
          ApproveReturns(p) /\ calls'[p].resp.success =>
            \E row \in BagToSet(founders_invite_codes') :
              /\ row.code = calls'[p].resp.code
              /\ row.request_id = calls[p].requestId
    ]_vars

\* the message m went to the email of a request whose code row holds m's code
MessageMatchesCodeRow(m) ==
  \E row \in BagToSet(founders_invite_codes) :
    /\ row.code = m.code
    /\ row.email = m.to
    /\ \E i \in DOMAIN founders_requests :
         /\ founders_requests[i].id = row.request_id
         /\ founders_requests[i].email = m.to

\* C24 witness: each applicant was sent one message with the code of their own
\* code row, one approval just returned success with the code of its message,
\* and the other slot holds an approval that failed at the code insert.
EachApplicantEmailedOwnCode ==
  /\ BagCardinality(sentEmails) = 2
  /\ \E m \in BagToSet(sentEmails) : \E n \in BagToSet(sentEmails) :
       /\ m.to # n.to
       /\ m.code # n.code
       /\ MessageMatchesCodeRow(m)
       /\ MessageMatchesCodeRow(n)
       /\ \E p \in Procs :
            /\ calls[p].op = "approve"
            /\ calls[p].pc = "done"
            /\ calls[p].resp.success
            /\ calls[p].resp.code = m.code
  /\ \E q \in Procs :
       /\ calls[q].op = "approve"
       /\ calls[q].pc = "done"
       /\ calls[q].resp.error = ErrCreateCode

====
